---------------------------- MODULE Spec2Model ----------------------------
(***************************************************************************)
(* Causal pattern mining over message traces (gem5-snoop).                 *)
(*                                                                         *)
(* The module models the pattern matcher remove_pattern_from_trace         *)
(* (functions.py), the two-value remover remove_binary_pattern, the causal *)
(* pair deriver find_causal_pairs / isCausal, the decomposition search     *)
(* find_binary_pattern / explore_node, the report of                       *)
(* compute_common_causal_pairs, the graph builder                          *)
(* construct_causality_graph and the group extractor                       *)
(* extract_groups_from_msg_file ("binary_patterns copy 2.py"), and the     *)
(* pattern scorer find_acceptance_ratios (functions.py).                   *)
(*                                                                         *)
(* Conventions.  A Python list is a TLA+ sequence; a position of a trace   *)
(* is 1-based here (Python position p is position p+1).  A Python tuple    *)
(* (a, b) is the sequence <<a, b>>.  The float 1 - x/n is kept as the      *)
(* exact fraction (n - x)/n: for the lengths modelled the float is 1.0     *)
(* exactly when x = 0, 0.0 exactly when x = n, and is ordered as the       *)
(* fraction is.                                                            *)
(***************************************************************************)
EXTENDS Integers, Sequences, FiniteSets, TLC

VARIABLES
    pc,                       \* which entry point runs, and where it stands
    trace,                    \* the trace given to the entry point
    pattern,                  \* the pattern given to the removers
    removal,                  \* what remove_pattern_from_trace computed
    binary,                   \* what remove_binary_pattern computed
    indices,                  \* find_causal_pairs: the index list
    successors_dict,          \* index -> its 'successors' list (as a set)
    causal_pairs,             \* the set find_causal_pairs returned
    pairOrder,                \* the order in which the set causal_pairs iterates
    stack,                    \* explore_node: the call stack, top last
    heap,                     \* the used_nodes list objects (shared by reference)
    route_acceptance_ratios,  \* the routes recorded so far, in recording order
    leaves,                   \* per execution of line 290: the node and the outcome
    report,                   \* compute_common_causal_pairs: the two route lists
    calls,                    \* per call of explore_node: the node as it was entered
    sections,                 \* construct_causality_graph: the sections of the message file
    graph,                    \* what construct_causality_graph computed
    patterns,                 \* find_acceptance_ratios: the pattern list
    ratio_pointers,           \* find_acceptance_ratios: pointers, the patterns not scored yet
    pattern_acceptance_ratios,\* find_acceptance_ratios: the result list
    passes,                   \* find_acceptance_ratios: passes of the while loop so far
    lines,                    \* extract_groups_from_msg_file: the lines of the file
    groups                    \* what extract_groups_from_msg_file returned

vars == <<pc, trace, pattern, removal, binary, indices, successors_dict,
          causal_pairs, pairOrder, stack, heap, route_acceptance_ratios,
          leaves, report, calls, sections, graph, patterns, ratio_pointers,
          pattern_acceptance_ratios, passes, lines, groups>>

\* the variables of the removers, the pair deriver, the search and the report;
\* those of construct_causality_graph, of find_acceptance_ratios and of
\* extract_groups_from_msg_file
searchVars == <<trace, pattern, removal, binary, indices, successors_dict,
                causal_pairs, pairOrder, stack, heap, route_acceptance_ratios,
                leaves, report, calls>>

graphVars == <<sections, graph>>

scorerVars == <<patterns, ratio_pointers, pattern_acceptance_ratios, passes>>

groupVars == <<lines, groups>>

-----------------------------------------------------------------------------
(* Bounds and input universes *)

MaxTraceLen == 5

MaxPatternLen == 3

\* message indices used by the inputs (0 and 25 are the request/response of
\* the scenarios, 2 the third index of the test trace in the source)
Values == {0, 2, 25}

SeqsUpTo(S, n) == UNION {[1..k -> S] : k \in 0..n}

Range(s) == {s[i] : i \in 1..Len(s)}

Last(s) == s[Len(s)]

-----------------------------------------------------------------------------
(* remove_pattern_from_trace (functions.py) *)

\* buckets[num]: the positions of num in the trace, ascending
Bucket(t, num) ==
    LET F[i \in 0..Len(t)] ==
            IF i = 0 THEN <<>>
            ELSE IF t[i] = num THEN Append(F[i - 1], i) ELSE F[i - 1]
    IN  F[Len(t)]

\* a cursor that stops at an entry equal to last (< for <= at line 321)
RECURSIVE AdvancePointerStrict(_, _, _)
AdvancePointerStrict(bucket, ptr, last) ==
    IF ptr <= Len(bucket) /\ bucket[ptr] < last
    THEN AdvancePointerStrict(bucket, ptr + 1, last)
    ELSE ptr

\* the while loop: move the cursor past the entries <= last
RECURSIVE AdvancePointer(_, _, _)
AdvancePointer(bucket, ptr, last) ==
    IF ptr <= Len(bucket) /\ bucket[ptr] <= last
    THEN AdvancePointer(bucket, ptr + 1, last)
    ELSE ptr

\* a slot loop that leaves the cursor on the position it has just taken
RECURSIVE MatchSlotsReusing(_, _, _, _, _)
MatchSlotsReusing(t, pat, j, pointers, currentindices) ==
    IF j > Len(pat)
    THEN [pointers |-> pointers, currentindices |-> currentindices,
          valid_pattern |-> TRUE]
    ELSE LET b == Bucket(t, pat[j])
             p == AdvancePointer(b, pointers[j], Last(currentindices))
         IN  IF p <= Len(b)
             THEN MatchSlotsReusing(t, pat, j + 1, [pointers EXCEPT ![j] = p],
                                    Append(currentindices, b[p]))
             ELSE [pointers |-> [pointers EXCEPT ![j] = p],
                   currentindices |-> currentindices,
                   valid_pattern |-> FALSE]

\* the for j loop over the later slots of one start position
RECURSIVE MatchSlots(_, _, _, _, _)
MatchSlots(t, pat, j, pointers, currentindices) ==
    IF j > Len(pat)
    THEN [pointers |-> pointers, currentindices |-> currentindices,
          valid_pattern |-> TRUE]
    ELSE LET b == Bucket(t, pat[j])
             p == AdvancePointer(b, pointers[j], Last(currentindices))
         IN  IF p <= Len(b)
             THEN MatchSlots(t, pat, j + 1, [pointers EXCEPT ![j] = p + 1],
                             Append(currentindices, b[p]))
             ELSE [pointers |-> [pointers EXCEPT ![j] = p],
                   currentindices |-> currentindices,
                   valid_pattern |-> FALSE]

\* the for index loop over the bucket of pattern[0]; occurrences keeps the
\* currentindices of every start that passed the test of line 337
RECURSIVE ScanStarts(_, _, _, _, _, _)
ScanStarts(t, pat, k, pointers, to_remove, occurrences) ==
    LET b0 == Bucket(t, pat[1])
    IN  IF k > Len(b0)
        THEN [to_remove |-> to_remove, occurrences |-> occurrences]
        ELSE LET m == MatchSlots(t, pat, 2, pointers, <<b0[k]>>)
                 ok == m.valid_pattern /\ Len(m.currentindices) = Len(pat)
             IN  ScanStarts(t, pat, k + 1, m.pointers,
                            IF ok THEN to_remove \cup Range(m.currentindices)
                                  ELSE to_remove,
                            IF ok THEN Append(occurrences, m.currentindices)
                                  ELSE occurrences)

\* a filter that tests the element where line 342 tests its position
DropValues(t, to_remove) ==
    LET F[i \in 0..Len(t)] ==
            IF i = 0 THEN <<>>
            ELSE IF t[i] \in to_remove THEN F[i - 1] ELSE Append(F[i - 1], t[i])
    IN  F[Len(t)]

\* [trace[i] for i in range(len(trace)) if i not in to_remove]
DropPositions(t, to_remove) ==
    LET F[i \in 0..Len(t)] ==
            IF i = 0 THEN <<>>
            ELSE IF i \in to_remove THEN F[i - 1] ELSE Append(F[i - 1], t[i])
    IN  F[Len(t)]

remove_pattern_from_trace(t, pat) ==
    LET s == ScanStarts(t, pat, 1, [j \in 1..Len(pat) |-> 1], {}, <<>>)
    IN  [called |-> TRUE, to_remove |-> s.to_remove,
         occurrences |-> s.occurrences,
         new_trace |-> DropPositions(t, s.to_remove)]

-----------------------------------------------------------------------------
(* remove_binary_pattern ("binary_patterns copy 2.py") *)

\* marked_trace[i]: 1 for pair[0], else 2 for pair[1], else 0 (an elif: a
\* pair (a, a) marks every a with 1 and nothing with 2)
Marked(t, pair, i) ==
    IF t[i] = pair[1] THEN 1 ELSE IF t[i] = pair[2] THEN 2 ELSE 0

\* a scan that pops the last entry of firsthalf where line 370 pops the first
RECURSIVE BinaryScanLifo(_, _, _, _, _, _)
BinaryScanLifo(t, pair, i, firsthalf, toremove, remove) ==
    IF i > Len(t)
    THEN toremove
    ELSE IF Marked(t, pair, i) = 1
    THEN BinaryScanLifo(t, pair, i + 1, Append(firsthalf, i), toremove, remove)
    ELSE IF Marked(t, pair, i) = 2 /\ Len(firsthalf) # 0
    THEN LET pop == firsthalf[1] < i
             r == IF pop THEN Last(firsthalf) ELSE remove
             fh == IF pop THEN SubSeq(firsthalf, 1, Len(firsthalf) - 1)
                   ELSE firsthalf
         IN  BinaryScanLifo(t, pair, i + 1, fh, toremove \o <<r, i>>, r)
    ELSE BinaryScanLifo(t, pair, i + 1, firsthalf, toremove, remove)

\* the while loop of lines 362-375.  remove starts at Python position 0,
\* which is position 1 here.  The list new_trace filled at line 374 is
\* overwritten at line 376 and is not kept.
RECURSIVE BinaryScan(_, _, _, _, _, _)
BinaryScan(t, pair, i, firsthalf, toremove, remove) ==
    IF i > Len(t)
    THEN toremove
    ELSE IF Marked(t, pair, i) = 1
    THEN BinaryScan(t, pair, i + 1, Append(firsthalf, i), toremove, remove)
    ELSE IF Marked(t, pair, i) = 2 /\ Len(firsthalf) # 0
    THEN LET pop == firsthalf[1] < i
             r == IF pop THEN Head(firsthalf) ELSE remove
             fh == IF pop THEN Tail(firsthalf) ELSE firsthalf
         IN  BinaryScan(t, pair, i + 1, fh, toremove \o <<r, i>>, r)
    ELSE BinaryScan(t, pair, i + 1, firsthalf, toremove, remove)

remove_binary_pattern(pair, t) ==
    LET toremove == BinaryScan(t, pair, 1, <<>>, <<>>, 1)
    IN  [called |-> TRUE, toremove |-> toremove,
         new_trace |-> DropPositions(t, Range(toremove))]

-----------------------------------------------------------------------------
(* isCausal, find_causal_pairs ("binary_patterns copy 2.py") *)

\* successors_dict.get(node, {}).get('successors', []): a missing key reads
\* as no successors
Successors(sd, node) == IF node \in DOMAIN sd THEN sd[node] ELSE {}

\* a test that reads the second node's successors only
isCausalBackward(node_index1, node_index2, sd) ==
    node_index1 \in Successors(sd, node_index2)

isCausal(node_index1, node_index2, sd) ==
    \/ node_index2 \in Successors(sd, node_index1)
    \/ node_index1 \in Successors(sd, node_index2)

find_causal_pairs(idx, sd) ==
    UNION {
        (IF isCausal(idx[i], idx[j], sd) THEN {<<idx[i], idx[j]>>} ELSE {}) \cup
        (IF isCausal(idx[j], idx[i], sd) THEN {<<idx[j], idx[i]>>} ELSE {})
        : <<i, j>> \in {q \in (1..Len(idx)) \X (1..Len(idx)) : q[1] < q[2]}}

\* the orders in which a list can hold the elements of a set, each once
RECURSIVE Perms(_)
Perms(S) ==
    IF S = {} THEN {<<>>}
    ELSE UNION {{<<e>> \o rest : rest \in Perms(S \ {e})} : e \in S}

-----------------------------------------------------------------------------
(* calculate_acceptance_ratio and the report of compute_common_causal_pairs *)

\* the number of routes kept with a ratio below 1 (line 324)
TopRoutes == 5

\* the orphaned share itself, without the "1 -"
orphaned_ratio(remaining_trace, original_trace) ==
    IF Len(original_trace) = 0
    THEN [raised |-> TRUE, num |-> 0, den |-> 0]
    ELSE [raised |-> FALSE, num |-> Len(remaining_trace),
          den |-> Len(original_trace)]

\* 1 - (len(remaining_trace) / len(original_trace)); raises ZeroDivisionError
\* for an empty original trace
calculate_acceptance_ratio(remaining_trace, original_trace) ==
    IF Len(original_trace) = 0
    THEN [raised |-> TRUE, num |-> 0, den |-> 0]
    ELSE [raised |-> FALSE,
          num |-> Len(original_trace) - Len(remaining_trace),
          den |-> Len(original_trace)]

RatioLess(r1, r2) == r1.num * r2.den < r2.num * r1.den

RatioIsOne(r) == r.num = r.den

RatioIsPositive(r) == r.num > 0

\* the routes left in recording order (no sort at line 318)
NotSorted(entries) == entries

\* sorted(..., key=ratio, reverse=True): stable, so an entry goes after the
\* entries before it whose ratio is not smaller
SortedByRatio(entries) ==
    LET Insert(sorted, e) ==
            LET k == Cardinality({j \in 1..Len(sorted) :
                         ~RatioLess(sorted[j].acceptance_ratio, e.acceptance_ratio)})
            IN  SubSeq(sorted, 1, k) \o <<e>> \o SubSeq(sorted, k + 1, Len(sorted))
        F[i \in 0..Len(entries)] ==
            IF i = 0 THEN <<>> ELSE Insert(F[i - 1], entries[i])
    IN  F[Len(entries)]

\* the loop of lines 321-325 over sorted_pairs
SelectTop(sorted_pairs) ==
    LET F[i \in 0..Len(sorted_pairs)] ==
            IF i = 0
            THEN [with_ratio_1 |-> {}, without_ratio_1 |-> {}]
            ELSE LET e == sorted_pairs[i]
                     acc == F[i - 1]
                 IN  IF RatioIsOne(e.acceptance_ratio)
                     THEN [acc EXCEPT !.with_ratio_1 = @ \cup {e}]
                     ELSE IF RatioIsPositive(e.acceptance_ratio)
                             /\ Cardinality(acc.without_ratio_1) < TopRoutes
                     THEN [acc EXCEPT !.without_ratio_1 = @ \cup {e}]
                     ELSE acc
    IN  F[Len(sorted_pairs)]

\* sorted(set, key=ratio, reverse=True), line 327: the set iterates in an
\* order of its own, so entries of equal ratio may come out in any order
RECURSIVE DescendingOrders(_)
DescendingOrders(S) ==
    IF S = {} THEN {<<>>}
    ELSE LET top == {e \in S : \A x \in S :
                        ~RatioLess(e.acceptance_ratio, x.acceptance_ratio)}
         IN  UNION {{<<e>> \o rest : rest \in DescendingOrders(S \ {e})} : e \in top}

-----------------------------------------------------------------------------
(* Idle values of the variables an entry point does not use *)

NotCalledRemoval ==
    [called |-> FALSE, to_remove |-> {}, occurrences |-> <<>>, new_trace |-> <<>>]

NotCalledBinary == [called |-> FALSE, toremove |-> <<>>, new_trace |-> <<>>]

NoReport == [written |-> FALSE, with_ratio_1 |-> {}, without_ratio_1 |-> <<>>]

NoSuccessors == [v \in {} |-> {}]

MatcherIdle == pattern = <<>> /\ removal = NotCalledRemoval /\ binary = NotCalledBinary

PairsIdle == indices = <<>>

SearchIdle ==
    /\ causal_pairs = {} /\ pairOrder = <<>> /\ stack = <<>> /\ heap = <<>>
    /\ leaves = <<>> /\ calls = <<>>

NotCalledGraph ==
    [called |-> FALSE, raised |-> FALSE, initial_nodes |-> {},
     terminating_nodes |-> {}, successors_dict |-> <<>>]

GraphIdle == sections = <<>> /\ graph = NotCalledGraph

ScorerIdle ==
    /\ patterns = <<>> /\ ratio_pointers = <<>>
    /\ pattern_acceptance_ratios = <<>> /\ passes = 0

NotCalledGroups == [called |-> FALSE, returned |-> <<>>]

GroupsIdle == lines = <<>> /\ groups = NotCalledGroups

-----------------------------------------------------------------------------
(* The removers, called on one trace and one pattern *)

Patterns == UNION {[1..k -> Values] : k \in 1..MaxPatternLen}

MatcherInit ==
    /\ pc = "matcher"
    /\ trace \in SeqsUpTo(Values, MaxTraceLen)
    /\ pattern \in Patterns
    /\ removal = NotCalledRemoval
    /\ binary = NotCalledBinary
    /\ PairsIdle /\ SearchIdle
    /\ successors_dict = NoSuccessors
    /\ route_acceptance_ratios = <<>>
    /\ report = NoReport
    /\ GraphIdle /\ ScorerIdle /\ GroupsIdle

RemovePatternFromTrace ==
    /\ pc = "matcher"
    /\ ~removal.called
    /\ removal' = remove_pattern_from_trace(trace, pattern)
    /\ UNCHANGED <<pc, trace, pattern, binary, indices, successors_dict,
                   causal_pairs, pairOrder, stack, heap,
                   route_acceptance_ratios, leaves, report,
                   calls, graphVars, scorerVars, groupVars>>

RemoveBinaryPattern ==
    /\ pc = "matcher"
    /\ Len(pattern) = 2
    /\ ~binary.called
    /\ binary' = remove_binary_pattern(pattern, trace)
    /\ UNCHANGED <<pc, trace, pattern, removal, indices, successors_dict,
                   causal_pairs, pairOrder, stack, heap,
                   route_acceptance_ratios, leaves, report,
                   calls, graphVars, scorerVars, groupVars>>

MatcherNext == RemovePatternFromTrace \/ RemoveBinaryPattern

SpecMatcher == MatcherInit /\ [][MatcherNext]_vars

-----------------------------------------------------------------------------
(* find_causal_pairs, called on one index list and one successor map *)

\* lists of distinct indices
IndexLists == UNION {Perms(S) : S \in SUBSET Values}

\* successor maps: any set of keys, any successor set per key (self-loops
\* included, construct_causality_graph does not filter them)
SuccessorMaps == UNION {[D -> SUBSET Values] : D \in SUBSET Values}

PairsInit ==
    /\ pc = "pairs"
    /\ indices \in IndexLists
    /\ successors_dict \in SuccessorMaps
    /\ trace = <<>>
    /\ MatcherIdle /\ SearchIdle
    /\ route_acceptance_ratios = <<>>
    /\ report = NoReport
    /\ GraphIdle /\ ScorerIdle /\ GroupsIdle

FindCausalPairs ==
    /\ pc = "pairs"
    /\ causal_pairs' = find_causal_pairs(indices, successors_dict)
    /\ pc' = "pairs_done"
    /\ UNCHANGED <<trace, pattern, removal, binary, indices, successors_dict,
                   pairOrder, stack, heap, route_acceptance_ratios, leaves,
                   report,
                   calls, graphVars, scorerVars, groupVars>>

PairsNext == FindCausalPairs

SpecPairs == PairsInit /\ [][PairsNext]_vars

-----------------------------------------------------------------------------
(* find_binary_pattern / explore_node, then the report *)

MaxSearchLen == 4

\* The successor maps given to the search: total on Values, no self-loop and
\* at most one direction per pair of indices.  The search reads the map only
\* through find_causal_pairs, of which SpecPairs covers every map.
SearchSuccessorMaps ==
    {sd \in [Values -> SUBSET Values] :
        \A a \in Values : a \notin sd[a] /\ \A b \in sd[a] : a \notin sd[b]}

\* The iteration orders of the set causal_pairs that the search tells apart:
\* a pair whose first element is not the value at hand is passed over at line
\* 269, so only the order among pairs that share a first element shows, and
\* one order per such class is listed (first elements ascending).
RECURSIVE IterationOrders(_)
IterationOrders(S) ==
    IF S = {} THEN {<<>>}
    ELSE LET low == {e \in S : \A x \in S : e[1] <= x[1]}
         IN  UNION {{<<e>> \o rest : rest \in IterationOrders(S \ {e})} : e \in low}

\* Node(...): a fresh frame of explore_node at the start of its value loop.
\* used_nodes is a reference into heap; index walks remaining_trace; at_pair
\* walks pairOrder, 0 outside the pair loop.
NewFrame(remaining_trace, used_pairs, used_nodes) ==
    [remaining_trace |-> remaining_trace, used_pairs |-> used_pairs,
     used_nodes |-> used_nodes, index |-> 1, at_pair |-> 0, flag |-> 0,
     seen |-> <<>>]

\* the node as explore_node receives it: its fields when the call starts, the
\* contents of its used_nodes list included
Entered(frame, h) ==
    [remaining_trace |-> frame.remaining_trace, used_pairs |-> frame.used_pairs,
     used_nodes |-> h[frame.used_nodes]]

Top == stack[Len(stack)]

SetTop(f) == [stack EXCEPT ![Len(stack)] = f]

Pop == SubSeq(stack, 1, Len(stack) - 1)

SearchInitOn(traces, maps) ==
    /\ pc = "search"
    /\ trace \in traces
    /\ successors_dict \in maps
    /\ MatcherIdle /\ PairsIdle /\ SearchIdle
    /\ route_acceptance_ratios = <<>>
    /\ report = NoReport
    /\ GraphIdle /\ ScorerIdle /\ GroupsIdle

\* lines 235-251: the candidate pairs of the trace's indices, and the root
StartSearch ==
    /\ pc = "search"
    /\ \E group_indices \in Perms(Range(trace)) :
         /\ causal_pairs' = find_causal_pairs(group_indices, successors_dict)
         /\ pairOrder' \in IterationOrders(causal_pairs')
    /\ heap' = << <<>> >>
    /\ stack' = <<NewFrame(trace, <<>>, 1)>>
    /\ calls' = <<Entered(stack'[1], heap')>>
    /\ pc' = "explore"
    /\ UNCHANGED <<trace, pattern, removal, binary, indices, successors_dict,
                   route_acceptance_ratios, leaves, report,
                   graphVars, scorerVars, groupVars>>

\* lines 262-267: the next value of the remaining trace; consumed and
\* repeated values are skipped, a new one opens the pair loop
ScanValue ==
    /\ pc = "explore"
    /\ Top.at_pair = 0
    /\ Top.index <= Len(Top.remaining_trace)
    /\ LET value == Top.remaining_trace[Top.index]
       IN  IF value \in Range(heap[Top.used_nodes]) \/ value \in Range(Top.seen)
           THEN stack' = SetTop([Top EXCEPT !.index = @ + 1])
           ELSE stack' = SetTop([Top EXCEPT !.seen = Append(@, value),
                                            !.at_pair = 1])
    /\ UNCHANGED <<pc, trace, pattern, removal, binary, indices, successors_dict,
                   causal_pairs, pairOrder, heap, route_acceptance_ratios,
                   leaves, report,
                   calls, graphVars, scorerVars, groupVars>>

\* a pair is applied whenever it shrinks the trace, consumed or not
AppliesWhenShrinks(node, pair) ==
    /\ pair[1] = node.remaining_trace[node.index]
    /\ Len(remove_binary_pattern(pair, node.remaining_trace).new_trace)
         # Len(node.remaining_trace)

\* a pair is applied whenever it starts with the value at hand
AppliesAnyPair(node, pair) ==
    pair[1] = node.remaining_trace[node.index]

\* lines 269-274: whether the pair at hand is applied at this node
Applies(node, pair) ==
    /\ pair[1] = node.remaining_trace[node.index]
    /\ pair[1] \notin Range(heap[node.used_nodes])
    /\ pair[2] \notin Range(heap[node.used_nodes])
    /\ Len(remove_binary_pattern(pair, node.remaining_trace).new_trace)
         # Len(node.remaining_trace)

\* line 278, Node.__init__: used_nodes if used_nodes else []: a non-empty
\* list is shared with the parent, an empty one is replaced by a new list
ChildUsedNodes(node) ==
    IF Len(heap[node.used_nodes]) # 0 THEN node.used_nodes ELSE Len(heap) + 1

\* lines 268-281: one pair of the pair loop; an applied pair sets the flag
\* and calls explore_node on the child
TryPair ==
    /\ pc = "explore"
    /\ Top.at_pair \in 1..Len(pairOrder)
    /\ LET pair == pairOrder[Top.at_pair]
           node == [Top EXCEPT !.at_pair = @ + 1]
       IN  IF Applies(Top, pair)
           THEN LET ref == ChildUsedNodes(Top)
                    base == IF ref = Top.used_nodes THEN heap
                            ELSE Append(heap, <<>>)
                IN  /\ heap' = [base EXCEPT ![ref] = @ \o <<pair[1], pair[2]>>]
                    /\ stack' = Append(SetTop([node EXCEPT !.flag = 1]),
                           NewFrame(
                               remove_binary_pattern(pair, Top.remaining_trace).new_trace,
                               Append(Top.used_pairs, pair), ref))
                    /\ calls' = Append(calls, Entered(stack'[Len(stack')], heap'))
           ELSE /\ stack' = SetTop(node)
                /\ heap' = heap
                /\ calls' = calls
    /\ UNCHANGED <<pc, trace, pattern, removal, binary, indices, successors_dict,
                   causal_pairs, pairOrder, route_acceptance_ratios, leaves,
                   report,
                   graphVars, scorerVars, groupVars>>

\* a value loop that goes on to the next value whatever the flag
NextIndexNoBreak(node) == node.index + 1

\* lines 262, 284-285: where the value loop stands after the pair loop: past
\* the end when a child was made (break), else at the next value
NextIndex(node) ==
    IF node.flag = 1 THEN Len(node.remaining_trace) + 1 ELSE node.index + 1

\* lines 284-285: after the pair loop, break when a child was made, else go
\* on to the next value
EndValue ==
    /\ pc = "explore"
    /\ Top.at_pair > Len(pairOrder)
    /\ stack' = SetTop([Top EXCEPT !.at_pair = 0, !.index = NextIndex(Top)])
    /\ UNCHANGED <<pc, trace, pattern, removal, binary, indices, successors_dict,
                   causal_pairs, pairOrder, heap, route_acceptance_ratios,
                   leaves, report,
                   calls, graphVars, scorerVars, groupVars>>

LoopOver ==
    /\ pc = "explore"
    /\ Top.at_pair = 0
    /\ Top.index > Len(Top.remaining_trace)

\* a node that takes every return for a leaf (the test of line 288 dropped)
IsLeafAlways(node) == TRUE

\* line 288: if(flag==0)
IsLeaf(node) == node.flag = 0

\* the snapshot of the node at which line 290 runs, with what
\* calculate_acceptance_ratio gave
LeafOf(node, ratio) ==
    [remaining_trace |-> node.remaining_trace, used_pairs |-> node.used_pairs,
     used_nodes |-> heap[node.used_nodes], acceptance_ratio |-> ratio]

\* lines 288-293 with a non-empty original trace: the leaf records its route
\* and returns
RecordLeaf ==
    /\ LoopOver
    /\ IsLeaf(Top)
    /\ LET ratio == calculate_acceptance_ratio(Top.remaining_trace, trace)
       IN  /\ ~ratio.raised
           /\ route_acceptance_ratios' = Append(route_acceptance_ratios,
                  [used_pairs |-> Top.used_pairs, acceptance_ratio |-> ratio])
           /\ leaves' = Append(leaves, LeafOf(Top, ratio))
    /\ stack' = Pop
    /\ pc' = IF Len(stack) = 1 THEN "done" ELSE "explore"
    /\ UNCHANGED <<trace, pattern, removal, binary, indices, successors_dict,
                   causal_pairs, pairOrder, heap, report,
                   calls, graphVars, scorerVars, groupVars>>

\* line 290 with an empty original trace: the division raises, nothing is
\* recorded and the exception leaves find_binary_pattern
RaiseAtLeaf ==
    /\ LoopOver
    /\ IsLeaf(Top)
    /\ LET ratio == calculate_acceptance_ratio(Top.remaining_trace, trace)
       IN  /\ ratio.raised
           /\ leaves' = Append(leaves, LeafOf(Top, ratio))
    /\ stack' = <<>>
    /\ pc' = "ZeroDivisionError"
    /\ UNCHANGED <<trace, pattern, removal, binary, indices, successors_dict,
                   causal_pairs, pairOrder, heap, route_acceptance_ratios,
                   report,
                   calls, graphVars, scorerVars, groupVars>>

\* line 288 not taken: a node that made children returns without a route
ReturnInner ==
    /\ LoopOver
    /\ ~IsLeaf(Top)
    /\ stack' = Pop
    /\ pc' = IF Len(stack) = 1 THEN "done" ELSE "explore"
    /\ UNCHANGED <<trace, pattern, removal, binary, indices, successors_dict,
                   causal_pairs, pairOrder, heap, route_acceptance_ratios,
                   leaves, report,
                   calls, graphVars, scorerVars, groupVars>>

\* compute_common_causal_pairs, lines 318-327, on the routes returned
WriteReport ==
    /\ pc = "done"
    /\ LET top == SelectTop(SortedByRatio(route_acceptance_ratios))
       IN  \E order \in DescendingOrders(top.without_ratio_1) :
              report' = [written |-> TRUE,
                         with_ratio_1 |-> top.with_ratio_1,
                         without_ratio_1 |-> order]
    /\ pc' = "reported"
    /\ UNCHANGED <<trace, pattern, removal, binary, indices, successors_dict,
                   causal_pairs, pairOrder, stack, heap,
                   route_acceptance_ratios, leaves,
                   calls, graphVars, scorerVars, groupVars>>

Init == SearchInitOn(SeqsUpTo(Values, MaxSearchLen), SearchSuccessorMaps)

Next ==
    \/ StartSearch
    \/ ScanValue
    \/ TryPair
    \/ EndValue
    \/ RecordLeaf
    \/ RaiseAtLeaf
    \/ ReturnInner
    \/ WriteReport

Spec == Init /\ [][Next]_vars

\* The search on traces of more indices, so that a route applies several
\* pairs: the requests 0 and 2 and the responses 25, 26 and 27.
DeepValues == {0, 2, 25, 26, 27}

\* traces in which no index repeats, and traces of the two requests and the
\* response 26 that may answer both
DeepTraces ==
    UNION {Perms(S) : S \in SUBSET DeepValues}
        \cup SeqsUpTo({0, 2, 26}, MaxSearchLen)

\* 25 or 26 may answer 0, and 26 or 27 may answer 2
DeepSuccessorMaps ==
    {[v \in DeepValues |-> IF v = 0 THEN s0 ELSE IF v = 2 THEN s2 ELSE {}] :
        s0 \in SUBSET {25, 26}, s2 \in SUBSET {26, 27}}

DeepInit == SearchInitOn(DeepTraces, DeepSuccessorMaps)

SpecDeep == DeepInit /\ [][Next]_vars

\* lines 259-293: the steps of explore_node
ExploreStep ==
    ScanValue \/ TryPair \/ EndValue \/ RecordLeaf \/ RaiseAtLeaf \/ ReturnInner

\* The same search with explore_node run to its end: the call is synchronous,
\* each of its steps is taken as soon as it is reached.
SpecDeepFair == DeepInit /\ [][Next]_vars /\ WF_vars(ExploreStep)

-----------------------------------------------------------------------------
(* The report alone, on route lists longer than the modelled searches give *)

MaxRoutes == 6

\* the ratios k/3 of a trace of three positions
ReportRatios == {[raised |-> FALSE, num |-> k, den |-> 3] : k \in 0..3}

\* the route that applies the one pair (0, i)
RouteOf(i) == << <<0, i>> >>

\* n routes, pairwise distinct as the leaves of one search are, each with any
\* ratio; optionally followed by a second copy of the first of them
RouteList(n, f, again) ==
    LET base == [i \in 1..n |->
                    [used_pairs |-> RouteOf(i), acceptance_ratio |-> f[i]]]
    IN  IF again THEN Append(base, base[1]) ELSE base

\* find_binary_pattern has returned route_acceptance_ratios (line 317); the
\* trace and the search state are not read by the report
ReportInit ==
    /\ pc = "done"
    /\ \E n \in 0..MaxRoutes : \E f \in [1..n -> ReportRatios] :
          \E again \in {b \in BOOLEAN : b => n > 0} :
             route_acceptance_ratios = RouteList(n, f, again)
    /\ trace = <<>>
    /\ successors_dict = NoSuccessors
    /\ MatcherIdle /\ PairsIdle /\ SearchIdle
    /\ report = NoReport
    /\ GraphIdle /\ ScorerIdle /\ GroupsIdle

ReportNext == WriteReport

SpecReport == ReportInit /\ [][ReportNext]_vars

-----------------------------------------------------------------------------
(* read_messages_from_file and construct_causality_graph *)

\* the endpoint names of the message file
Endpoints == {"cache0", "cpu0"}

\* a line of a section: the parts index, src, dest of a message, or the empty
\* line <<>> that `if line` passes over
BlankLine == <<>>

\* lines 23-28: the messages of all sections, in file order
RECURSIVE read_messages_from_file(_)
read_messages_from_file(secs) ==
    IF secs = <<>> THEN <<>>
    ELSE SelectSeq(Head(secs), LAMBDA line : line # BlankLine)
            \o read_messages_from_file(Tail(secs))

\* lines 102-103: the indices of the lines of one section
SectionNodes(section) ==
    {section[k][1] : k \in {n \in 1..Len(section) : section[n] # BlankLine}}

\* the inner loop with the test of the terminating nodes left out
RECURSIVE InnerLoopAnySource(_, _, _, _, _)
InnerLoopAnySource(m, messages, k, initial_nodes, terminating_nodes) ==
    IF k > Len(messages) THEN <<>>
    ELSE (IF m[3] = messages[k][2] /\ messages[k][1] \notin initial_nodes
          THEN <<messages[k][1]>> ELSE <<>>)
            \o InnerLoopAnySource(m, messages, k + 1, initial_nodes,
                                  terminating_nodes)

\* lines 109-112: what the message m = (index, src, dest) appends to its
\* 'successors' list, scanning the messages from the k-th on
RECURSIVE InnerLoop(_, _, _, _, _)
InnerLoop(m, messages, k, initial_nodes, terminating_nodes) ==
    IF k > Len(messages) THEN <<>>
    ELSE (IF /\ m[3] = messages[k][2]
             /\ m[1] \notin terminating_nodes
             /\ messages[k][1] \notin initial_nodes
          THEN <<messages[k][1]>> ELSE <<>>)
            \o InnerLoop(m, messages, k + 1, initial_nodes, terminating_nodes)

\* the first message that carries the index j
MessageOf(messages, j) ==
    messages[CHOOSE k \in 1..Len(messages) :
                /\ messages[k][1] = j
                /\ \A n \in 1..(k - 1) : messages[n][1] # j]

\* lines 106-114: the outer loop from the k-th message on; sd maps an index to
\* its entry {'src', 'dest', 'successors'}
RECURSIVE OuterLoop(_, _, _, _, _)
OuterLoop(messages, k, sd, initial_nodes, terminating_nodes) ==
    IF k > Len(messages) THEN sd
    ELSE LET m == messages[k]
             entry == IF m[1] \in DOMAIN sd THEN sd[m[1]]
                      ELSE [src |-> m[2], dest |-> m[3], successors |-> <<>>]
             added == InnerLoop(m, messages, 1, initial_nodes, terminating_nodes)
             sd1 == (m[1] :> [entry EXCEPT !.successors = @ \o added]) @@ sd
             fresh == Range(added) \ DOMAIN sd1
             sd2 == [j \in fresh |->
                        [src |-> MessageOf(messages, j)[2],
                         dest |-> MessageOf(messages, j)[3],
                         successors |-> <<>>]] @@ sd1
         IN  OuterLoop(messages, k + 1, sd2, initial_nodes, terminating_nodes)

\* lines 100-117; sections[0] of an empty list raises IndexError.  The tensor
\* of the edge list is not kept: every edge (index, _) is also an entry of
\* successors_dict[index]['successors'].
construct_causality_graph(messages, secs) ==
    IF secs = <<>>
    THEN [called |-> TRUE, raised |-> TRUE, initial_nodes |-> {},
          terminating_nodes |-> {}, successors_dict |-> <<>>]
    ELSE LET initial_nodes == SectionNodes(secs[1])
             terminating_nodes == SectionNodes(secs[Len(secs)])
         IN  [called |-> TRUE, raised |-> FALSE,
              initial_nodes |-> initial_nodes,
              terminating_nodes |-> terminating_nodes,
              successors_dict |->
                  OuterLoop(messages, 1, <<>>, initial_nodes, terminating_nodes)]

\* the message lines of a file in which the indices of `order` appear once
\* each, in this order, with the endpoints given by ends
MessageLines(order, ends) ==
    [k \in 1..Len(order) |-> <<order[k], ends[order[k]][1], ends[order[k]][2]>>]

\* the lines cut into sections: cut[k] tells that a '#' follows the k-th line;
\* a section of two lines or more may hold an empty line after its first line
RECURSIVE CutSections(_, _, _)
CutSections(msgs, cut, blank) ==
    IF msgs = <<>> THEN <<>>
    ELSE LET n == IF \E k \in 1..(Len(msgs) - 1) : cut[k]
                  THEN CHOOSE k \in 1..(Len(msgs) - 1) :
                           cut[k] /\ \A j \in 1..(k - 1) : ~cut[j]
                  ELSE Len(msgs)
             first == SubSeq(msgs, 1, n)
             section == IF blank /\ n >= 2
                        THEN <<first[1], BlankLine>> \o Tail(first)
                        ELSE first
             rest == SubSeq(msgs, n + 1, Len(msgs))
         IN  <<section>> \o CutSections(rest,
                                [k \in 1..(Len(rest) - 1) |-> cut[k + n]], blank)

\* line 384: the message file has been read; an empty file gives no section
GraphInit ==
    /\ pc = "graph"
    /\ \E S \in SUBSET Values : \E order \in Perms(S) :
         \E ends \in [S -> Endpoints \X Endpoints] :
           \E cut \in [1..(Len(order) - 1) -> BOOLEAN] : \E blank \in BOOLEAN :
              sections = CutSections(MessageLines(order, ends), cut, blank)
    /\ graph = NotCalledGraph
    /\ trace = <<>>
    /\ successors_dict = NoSuccessors
    /\ MatcherIdle /\ PairsIdle /\ SearchIdle
    /\ route_acceptance_ratios = <<>>
    /\ report = NoReport
    /\ ScorerIdle /\ GroupsIdle

\* line 385
ConstructCausalityGraph ==
    /\ pc = "graph"
    /\ graph' = construct_causality_graph(read_messages_from_file(sections),
                                          sections)
    /\ pc' = IF graph'.raised THEN "IndexError" ELSE "graph_done"
    /\ UNCHANGED <<sections, searchVars, scorerVars, groupVars>>

GraphNext == ConstructCausalityGraph

SpecGraph == GraphInit /\ [][GraphNext]_vars

-----------------------------------------------------------------------------
(* find_acceptance_ratios *)

MaxScoredLen == 4

MaxPatterns == 2

\* line 186: pattern_skip_count <= 15
SkipLimit == 15

\* Counter(t)[num]
CountOf(t, num) == Cardinality({p \in 1..Len(t) : t[p] = num})

\* lines 201-202: sum(count[num] for num in pattern), one term per slot
RECURSIVE SumCounts(_, _)
SumCounts(t, pat) ==
    IF pat = <<>> THEN 0 ELSE CountOf(t, Head(pat)) + SumCounts(t, Tail(pat))

\* the ratio computed on the whole trace: 1 - len(updated) / len(remaining)
LengthRatio(remaining_trace, updated_remaining_trace, pat) ==
    IF Len(remaining_trace) # 0
    THEN [num |-> Len(remaining_trace) - Len(updated_remaining_trace),
          den |-> Len(remaining_trace)]
    ELSE [num |-> 0, den |-> 1]

\* the ratio without the test of line 211: 0/0 where the division raises
UnguardedRatio(remaining_trace, updated_remaining_trace, pat) ==
    [num |-> SumCounts(remaining_trace, pat)
                - SumCounts(updated_remaining_trace, pat),
     den |-> SumCounts(remaining_trace, pat)]

\* lines 198-215: the float 1 - orphans / original as the fraction
\* (original - orphans) / original, and 0 as 0/1
AcceptanceRatio(remaining_trace, updated_remaining_trace, pat) ==
    LET orphans == SumCounts(updated_remaining_trace, pat)
        original == SumCounts(remaining_trace, pat)
    IN  IF original # 0
        THEN [num |-> original - orphans, den |-> original]
        ELSE [num |-> 0, den |-> 1]

\* lines 181-185: the slots of the pattern whose number is in used_numbers
UsedSlots(pat, used_numbers) ==
    Cardinality({k \in 1..Len(pat) : pat[k] \in used_numbers})

\* a pass that scores a pattern whether or not its numbers are used
SkipsNothing(pat, st) == FALSE

\* lines 181-188: break_outer after the loop over the numbers of the pattern
BreakOuter(pat, st) == UsedSlots(pat, st.used_numbers) > 0

\* lines 196-227: the pattern is removed from the remaining trace of the pass
\* and scored; the result is appended twice (lines 219 and 220)
Scored(pat, st) ==
    LET updated_remaining_trace ==
            remove_pattern_from_trace(st.remaining_trace, pat).new_trace
        entry == [pattern |-> pat,
                  acceptance_ratio |->
                      AcceptanceRatio(st.remaining_trace,
                                      updated_remaining_trace, pat)]
    IN  [st EXCEPT !.remaining_trace = updated_remaining_trace,
                   !.results = @ \o <<entry, entry>>,
                   !.used_numbers = @ \cup Range(pat)]

\* lines 174-227: the for loop of one pass from the k-th pointer on; a
\* pattern with a used number is passed over, or ends the pass once
\* pattern_skip_count exceeds the limit
RECURSIVE ForLoop(_, _, _, _)
ForLoop(pats, ptrs, k, st) ==
    IF k > Len(ptrs) THEN st
    ELSE LET pat == pats[ptrs[k]]
             count == st.pattern_skip_count + UsedSlots(pat, st.used_numbers)
         IN  IF BreakOuter(pat, st)
             THEN IF count <= SkipLimit
                  THEN ForLoop(pats, ptrs, k + 1,
                               [st EXCEPT !.pattern_skip_count = count])
                  ELSE [st EXCEPT !.pattern_skip_count = count]
             ELSE ForLoop(pats, ptrs, k + 1,
                          [Scored(pat, st) EXCEPT
                              !.patterns_to_remove = @ \cup {ptrs[k]}])

\* lines 162-172: the state of a pass at its start
PassStart(t) ==
    [used_numbers |-> {}, remaining_trace |-> t, patterns_to_remove |-> {},
     pattern_skip_count |-> 0, results |-> <<>>]

\* the patterns given to the scorer: the pairs of indices (a, b) with a <= b;
\* the traces hold the two values in either order
ScoredPatterns == {pat \in [1..2 -> Values] : pat[1] <= pat[2]}

\* lines 145-157: the arguments, and pointers = list(range(len(patterns)))
\* (a pointer is 1-based here)
ScorerInit ==
    /\ pc = "scorer"
    /\ trace \in SeqsUpTo(Values, MaxScoredLen)
    /\ patterns \in SeqsUpTo(ScoredPatterns, MaxPatterns)
    /\ ratio_pointers = [k \in 1..Len(patterns) |-> k]
    /\ pattern_acceptance_ratios = <<>>
    /\ passes = 0
    /\ successors_dict = NoSuccessors
    /\ MatcherIdle /\ PairsIdle /\ SearchIdle
    /\ route_acceptance_ratios = <<>>
    /\ report = NoReport
    /\ GraphIdle /\ GroupsIdle

\* lines 159-230: one pass of the while loop
ScorePass ==
    /\ pc = "scorer"
    /\ ratio_pointers # <<>>
    /\ LET st == ForLoop(patterns, ratio_pointers, 1, PassStart(trace))
       IN  /\ pattern_acceptance_ratios' = pattern_acceptance_ratios \o st.results
           /\ ratio_pointers' = SelectSeq(ratio_pointers,
                                    LAMBDA p : p \notin st.patterns_to_remove)
    /\ passes' = passes + 1
    /\ UNCHANGED <<pc, patterns, searchVars, graphVars, groupVars>>

\* lines 159, 237: no pointer is left, the list is returned
ReturnRatios ==
    /\ pc = "scorer"
    /\ ratio_pointers = <<>>
    /\ pc' = "scored"
    /\ UNCHANGED <<searchVars, graphVars, scorerVars, groupVars>>

ScorerNext == ScorePass \/ ReturnRatios

SpecScorer == ScorerInit /\ [][ScorerNext]_vars

-----------------------------------------------------------------------------
(* extract_groups_from_msg_file *)

MaxLines == 3

\* line 43: len(parts) == 4
GroupFields == 4

\* the endpoint names in the order of Python's string comparison
EndpointOrder == <<"cache0", "cpu0">>

Rank(e) == CHOOSE k \in 1..Len(EndpointOrder) : EndpointOrder[k] = e

\* A stripped line of the file: a comment (it starts with '#'), an empty
\* line, or a definition whose split at ':' gives `fields` parts, of which
\* the first three are index, src and dest.
CommentLine == [kind |-> "comment", index |-> 0, src |-> "", dest |-> "", fields |-> 0]

EmptyLine == [kind |-> "empty", index |-> 0, src |-> "", dest |-> "", fields |-> 0]

DefinitionLine(index, src, dest, fields) ==
    [kind |-> "def", index |-> index, src |-> src, dest |-> dest, fields |-> fields]

\* line 45: tuple(sorted((src, dest)))
SortedKey(src, dest) ==
    IF Rank(src) <= Rank(dest) THEN <<src, dest>> ELSE <<dest, src>>

\* lines 37-48: the loop over the lines from the k-th on; group_indices maps
\* a key to the list of the indices appended for it
RECURSIVE ReadLines(_, _, _)
ReadLines(ls, k, group_indices) ==
    IF k > Len(ls) THEN group_indices
    ELSE LET line == ls[k]
         IN  IF line.kind = "def" /\ line.fields = GroupFields
             THEN LET key == SortedKey(line.src, line.dest)
                      sofar == IF key \in DOMAIN group_indices
                               THEN group_indices[key] ELSE <<>>
                  IN  ReadLines(ls, k + 1,
                         (key :> Append(sofar, line.index)) @@ group_indices)
             ELSE ReadLines(ls, k + 1, group_indices)

\* line 53, sorted(indices): the same elements, ascending, each as often as before
RECURSIVE SortedIndices(_)
SortedIndices(s) ==
    IF s = <<>> THEN <<>>
    ELSE LET least == CHOOSE k \in 1..Len(s) : \A j \in 1..Len(s) : s[k] <= s[j]
         IN  <<s[least]>>
               \o SortedIndices(SubSeq(s, 1, least - 1) \o SubSeq(s, least + 1, Len(s)))

KeyBefore(k1, k2) ==
    \/ Rank(k1[1]) < Rank(k2[1])
    \/ k1[1] = k2[1] /\ Rank(k1[2]) < Rank(k2[2])

\* line 56: sorted(groups); the groups have pairwise distinct keys
RECURSIVE SortedGroups(_)
SortedGroups(gs) ==
    IF gs = {} THEN <<>>
    ELSE LET first == CHOOSE g \in gs :
                 \A h \in gs \ {g} : KeyBefore(<<g.src, g.dest>>, <<h.src, h.dest>>)
         IN  <<first>> \o SortedGroups(gs \ {first})

\* lines 34-56; a group is the tuple (src, dest, indices)
extract_groups_from_msg_file(ls) ==
    LET group_indices == ReadLines(ls, 1, <<>>)
        gs == {[src |-> key[1], dest |-> key[2],
                indices |-> SortedIndices(group_indices[key])] :
                  key \in DOMAIN group_indices}
    IN  [called |-> TRUE, returned |-> SortedGroups(gs)]

\* the lines a file can hold when each index in `ends` has one definition:
\* comments, empty lines and definition lines with or without the cmd field
\* ("0 : cpu0:cache0:wt:req", "0:cpu0:cache0:req"); a line may be repeated
FileLinesOf(ends) ==
    {CommentLine, EmptyLine}
      \cup {DefinitionLine(i, ends[i][1], ends[i][2], f) :
               i \in DOMAIN ends, f \in {GroupFields, GroupFields + 1}}

\* line 35: the file is opened
GroupsInit ==
    /\ pc = "groups"
    /\ \E ends \in [Values -> Endpoints \X Endpoints] :
          lines \in SeqsUpTo(FileLinesOf(ends), MaxLines)
    /\ groups = NotCalledGroups
    /\ trace = <<>>
    /\ successors_dict = NoSuccessors
    /\ MatcherIdle /\ PairsIdle /\ SearchIdle
    /\ route_acceptance_ratios = <<>>
    /\ report = NoReport
    /\ GraphIdle /\ ScorerIdle

\* line 387
ExtractGroups ==
    /\ pc = "groups"
    /\ groups' = extract_groups_from_msg_file(lines)
    /\ pc' = "groups_done"
    /\ UNCHANGED <<lines, searchVars, graphVars, scorerVars>>

GroupsNext == ExtractGroups

SpecGroups == GroupsInit /\ [][GroupsNext]_vars

-----------------------------------------------------------------------------
(* Properties of the removers (SpecMatcher) *)

\* q lists positions of t, strictly ascending, holding pat slot by slot
IsOccurrence(q, t, pat) ==
    /\ Len(q) = Len(pat)
    /\ \A j \in 1..Len(pat) : t[q[j]] = pat[j]
    /\ \A j \in 1..(Len(pat) - 1) : q[j] < q[j + 1]

\* pat occurs in t as an order-preserving subsequence: E[i, j] says that
\* the first j slots of pat occur in the first i positions of t
Occurs(t, pat) ==
    LET E[i \in 0..Len(t), j \in 0..Len(pat)] ==
            IF j = 0 THEN TRUE
            ELSE IF i = 0 THEN FALSE
            ELSE E[i - 1, j] \/ (t[i] = pat[j] /\ E[i - 1, j - 1])
    IN  E[Len(t), Len(pat)]

\* the i-th smallest element of a set of positions
NthOf(S, i) == CHOOSE x \in S : Cardinality({y \in S : y <= x}) = i

\* res is t with exactly the positions in dropped left out, order kept
IsResidual(res, t, dropped) ==
    LET kept == (1..Len(t)) \ dropped
    IN  /\ Len(res) = Cardinality(kept)
        /\ \A i \in 1..Len(res) : res[i] = t[NthOf(kept, i)]

\* C1: every position remove_pattern_from_trace drops, for a pattern of
\* length >= 2, lies on a strictly ascending tuple of dropped positions that
\* holds the pattern slot by slot; nothing outside such an occurrence is dropped.
C1_DroppedOnlyInOccurrences ==
    (removal.called /\ Len(pattern) >= 2) =>
        \A p \in removal.to_remove :
            \E q \in [1..Len(pattern) -> removal.to_remove] :
                IsOccurrence(q, trace, pattern) /\ p \in Range(q)

\* C1 witness: an occurrence was dropped while another position holding a
\* pattern value stayed
C1_Witness ==
    /\ removal.called /\ Len(pattern) >= 2
    /\ removal.to_remove # {}
    /\ \E p \in (1..Len(trace)) \ removal.to_remove : trace[p] \in Range(pattern)

\* C2: for a pattern of length >= 2 the result is strictly shorter when the
\* pattern occurs in the trace as a subsequence, and equals the trace when it
\* does not.
C2_ShrinksIffOccurs ==
    (removal.called /\ Len(pattern) >= 2) =>
        /\ Occurs(trace, pattern) => Len(removal.new_trace) < Len(trace)
        /\ ~Occurs(trace, pattern) => removal.new_trace = trace

\* C2 witness: the pattern occurs, the result is shorter and not empty
C2_Witness ==
    /\ removal.called /\ Len(pattern) >= 2
    /\ Occurs(trace, pattern)
    /\ Len(removal.new_trace) < Len(trace)
    /\ removal.new_trace # <<>>

\* C3: the residual of either remover is the input trace with the removed
\* positions left out: survivors keep their values and their order.
C3_ResidualIsSubsequence ==
    /\ removal.called => IsResidual(removal.new_trace, trace, removal.to_remove)
    /\ binary.called => IsResidual(binary.new_trace, trace, Range(binary.toremove))

\* C3 witness: both removers ran, both dropped positions, both left some
C3_Witness ==
    /\ removal.called /\ binary.called
    /\ removal.to_remove # {} /\ binary.toremove # <<>>
    /\ removal.new_trace # <<>> /\ binary.new_trace # <<>>

\* C4: the occurrences removed by one call, for a pattern of length >= 2, are
\* pairwise disjoint, so the removed positions number len(pattern) times the
\* successful occurrences.
C4_OccurrencesDisjoint ==
    (removal.called /\ Len(pattern) >= 2) =>
        /\ \A i, j \in 1..Len(removal.occurrences) :
              i # j => Range(removal.occurrences[i])
                         \cap Range(removal.occurrences[j]) = {}
        /\ Cardinality(removal.to_remove)
             = Len(pattern) * Len(removal.occurrences)

-----------------------------------------------------------------------------
(* Properties of the search (Spec) *)

Shrinks(pair, t) == Len(remove_binary_pattern(pair, t).new_trace) < Len(t)

\* C5: at every leaf, for any trace length (0 included), the acceptance ratio
\* is a number in [0, 1], and it is 1 exactly when the leaf's remaining trace
\* is empty.
C5_RatioInUnitInterval ==
    \A i \in 1..Len(leaves) :
        LET r == leaves[i].acceptance_ratio
        IN  /\ ~r.raised
            /\ 0 <= r.num /\ r.num <= r.den
            /\ RatioIsOne(r) <=> leaves[i].remaining_trace = <<>>

\* C6 as stated: at every leaf, no candidate pair shrinks the leaf's remaining
\* trace.
C6_NoPairShrinksLeaf ==
    \A i \in 1..Len(leaves) : \A pair \in causal_pairs :
        ~Shrinks(pair, leaves[i].remaining_trace)

\* C6 amended: at every leaf, a candidate pair shrinks the leaf's remaining
\* trace only if one of its endpoints is consumed at that node; a pair with
\* both endpoints outside used_nodes leaves the length unchanged.
C6_OnlyConsumedPairsShrinkLeaf ==
    \A i \in 1..Len(leaves) : \A pair \in causal_pairs :
        Shrinks(pair, leaves[i].remaining_trace) =>
            \/ pair[1] \in Range(leaves[i].used_nodes)
            \/ pair[2] \in Range(leaves[i].used_nodes)

\* C6 witness: a recorded leaf whose remaining trace a candidate pair would
\* still shrink
C6_Witness ==
    \E i \in 1..Len(leaves) : \E pair \in causal_pairs :
        /\ ~leaves[i].acceptance_ratio.raised
        /\ Shrinks(pair, leaves[i].remaining_trace)

FullRoutes ==
    {i \in 1..Len(route_acceptance_ratios) :
        RatioIsOne(route_acceptance_ratios[i].acceptance_ratio)}

Scenario5 ==
    /\ pc \in {"done", "reported"}
    /\ trace = <<0, 25, 0, 25>>
    /\ <<0, 25>> \in causal_pairs

\* C7 as stated: on [0,25,0,25] with (0,25) a candidate, exactly one
\* full-coverage route is recorded, [(0,25),(0,25)], with ratio 1.
C7_RouteAppliesPairTwice ==
    Scenario5 =>
        /\ Cardinality(FullRoutes) = 1
        /\ \A i \in FullRoutes :
              route_acceptance_ratios[i].used_pairs = << <<0, 25>>, <<0, 25>> >>

\* C7 amended: on [0,25,0,25] with (0,25) a candidate, exactly one
\* full-coverage route is recorded, and it is [(0,25)] with ratio 1: one
\* application of the pair removes both its occurrences.
C7_RouteAppliesPairOnce ==
    Scenario5 =>
        /\ Cardinality(FullRoutes) = 1
        /\ \A i \in FullRoutes :
              route_acceptance_ratios[i].used_pairs = << <<0, 25>> >>

\* C7 witness: the search of [0,25,0,25] with candidate (0,25) has returned
C7_Witness == Scenario5 /\ pc = "done" /\ route_acceptance_ratios # <<>>

-----------------------------------------------------------------------------
(* Properties of the report (SpecReport) *)

Recorded == Range(route_acceptance_ratios)

PartialRoutes ==
    {e \in Recorded : RatioIsPositive(e.acceptance_ratio)
                       /\ ~RatioIsOne(e.acceptance_ratio)}

Min(a, b) == IF a <= b THEN a ELSE b

\* C8: the report holds every distinct route of ratio 1; at most 5 distinct
\* routes of ratio strictly between 0 and 1, those of the highest ratios, in
\* descending order; and no route of ratio 0.
C8_ReportKeepsFullAndTopPartial ==
    report.written =>
        LET kept == Range(report.without_ratio_1)
        IN  /\ report.with_ratio_1
                 = {e \in Recorded : RatioIsOne(e.acceptance_ratio)}
            /\ kept \subseteq PartialRoutes
            /\ Len(report.without_ratio_1) = Cardinality(kept)
            /\ Cardinality(kept) = Min(TopRoutes, Cardinality(PartialRoutes))
            /\ \A k \in kept : \A e \in PartialRoutes \ kept :
                  ~RatioLess(k.acceptance_ratio, e.acceptance_ratio)
            /\ \A i, j \in 1..Len(report.without_ratio_1) :
                  i < j => ~RatioLess(report.without_ratio_1[i].acceptance_ratio,
                                      report.without_ratio_1[j].acceptance_ratio)
            /\ \A e \in report.with_ratio_1 \cup kept :
                  RatioIsPositive(e.acceptance_ratio)

\* C8 witness: a report that had to leave out a route of ratio in (0, 1)
\* because five better or equal ones were kept
C8_Witness ==
    /\ report.written
    /\ Len(report.without_ratio_1) = TopRoutes
    /\ PartialRoutes \ Range(report.without_ratio_1) # {}
    /\ \E i, j \in 1..Len(report.without_ratio_1) :
          RatioLess(report.without_ratio_1[j].acceptance_ratio,
                    report.without_ratio_1[i].acceptance_ratio)

-----------------------------------------------------------------------------
(* Properties of find_causal_pairs (SpecPairs) *)

\* C9: every pair (a, b) returned is causal in that direction: b is in
\* succ(a).
C9_PairsAreDirected ==
    pc = "pairs_done" =>
        \A pair \in causal_pairs : pair[2] \in Successors(successors_dict, pair[1])

\* C10: for distinct indices a, b of the list, b in succ(a) puts (a, b) in
\* the result; when also a is in succ(b), both (a, b) and (b, a) are in it.
C10_SuccessorPairsReturned ==
    pc = "pairs_done" =>
        \A a, b \in Range(indices) :
            (a # b /\ b \in Successors(successors_dict, a)) =>
                /\ <<a, b>> \in causal_pairs
                /\ a \in Successors(successors_dict, b) => <<b, a>> \in causal_pairs

\* C10 witness: two listed indices, each a successor of the other, with a
\* third listed index related to neither
C10_Witness ==
    /\ pc = "pairs_done"
    /\ \E a, b, c \in Range(indices) :
          /\ a # b /\ c \notin {a, b}
          /\ b \in Successors(successors_dict, a)
          /\ a \in Successors(successors_dict, b)
          /\ <<a, b>> \in causal_pairs /\ <<b, a>> \in causal_pairs
          /\ \A x \in {a, b} : <<c, x>> \notin causal_pairs

-----------------------------------------------------------------------------
(* Properties of construct_causality_graph (SpecGraph) *)

\* the message lines of the file, and those of its k-th section
FileLines == read_messages_from_file(sections)

LinesOf(k) == read_messages_from_file(<<sections[k]>>)

IndicesOf(msgs) == {msgs[k][1] : k \in 1..Len(msgs)}

\* the line that defines index i
LineOf(i) == FileLines[CHOOSE k \in 1..Len(FileLines) : FileLines[k][1] = i]

\* C11: for a message list with at least one section, j is in the successors
\* of i exactly when the destination of i's message is the source of j's
\* message, i is not an index of the last section and j is not an index of
\* the first section; this holds for i = j too (self-loops are kept).
C11_SuccessorsIffLinked ==
    (graph.called /\ Len(sections) >= 1) =>
        /\ ~graph.raised
        /\ DOMAIN graph.successors_dict = IndicesOf(FileLines)
        /\ \A i \in IndicesOf(FileLines) : \A j \in IndicesOf(FileLines) :
              j \in Range(graph.successors_dict[i].successors)
                <=> /\ LineOf(i)[3] = LineOf(j)[2]
                    /\ i \notin IndicesOf(LinesOf(Len(sections)))
                    /\ j \notin IndicesOf(LinesOf(1))

\* a file of three sections whose middle message succeeds itself and the
\* initial message, and has the terminating message as a successor
C11_Witness ==
    /\ graph.called /\ Len(sections) = 3
    /\ \E i \in IndicesOf(LinesOf(1)) : \E m \in IndicesOf(LinesOf(2)) :
         \E t \in IndicesOf(LinesOf(3)) :
            /\ m \in Range(graph.successors_dict[i].successors)
            /\ m \in Range(graph.successors_dict[m].successors)
            /\ t \in Range(graph.successors_dict[m].successors)
            /\ graph.successors_dict[t].successors = <<>>

\* C12: for a sections input with fewer than 2 sections (one, or none),
\* construct_causality_graph does not fail and returns a successor map
\* computed with the initial set equal to the terminating set.
C12_FewSectionsDoNotFail ==
    (graph.called /\ Len(sections) < 2) =>
        /\ ~graph.raised
        /\ graph.initial_nodes = graph.terminating_nodes

-----------------------------------------------------------------------------
(* Properties of find_acceptance_ratios (SpecScorer) *)

\* the entry of a pattern removed alone from the original trace
ScoredAlone(pat) == Scored(pat, PassStart(trace)).results[1]

SameRatio(r1, r2) == r1.num * r2.den = r2.num * r1.den

\* C13: the ratio recorded for a pattern equals the ratio obtained by
\* removing that pattern alone from an unmodified copy of the original
\* trace: the removals made earlier in the same pass do not change it.
C13_RatioAsIfAlone ==
    \A k \in 1..Len(pattern_acceptance_ratios) :
        SameRatio(pattern_acceptance_ratios[k].acceptance_ratio,
                  ScoredAlone(pattern_acceptance_ratios[k].pattern).acceptance_ratio)

\* a pass has scored a pattern of the trace after it removed positions of an
\* earlier pattern, and both patterns were found in the trace
C13_Witness ==
    /\ Len(pattern_acceptance_ratios) = 4
    /\ ratio_pointers = <<>>
    /\ pattern_acceptance_ratios[1].pattern # pattern_acceptance_ratios[3].pattern
    /\ pattern_acceptance_ratios[1].acceptance_ratio.num > 0
    /\ pattern_acceptance_ratios[3].acceptance_ratio.num > 0
    /\ Range(patterns[1]) \cap Range(patterns[2]) = {}

\* the residual of the original trace after the pattern alone is removed
ResidualOf(pat) == remove_pattern_from_trace(trace, pat).new_trace

\* the positions of t that hold the value of a slot of the pattern, one for
\* each such slot
SlotPositions(t, pat) ==
    {sp \in (1..Len(pat)) \X (1..Len(t)) : t[sp[2]] = pat[sp[1]]}

\* C14 as stated: the recorded ratio is 1 - (length of the residual trace
\* after removing the pattern) / (length of the original trace).
C14_RatioOverTraceLength ==
    \A k \in 1..Len(pattern_acceptance_ratios) :
        LET e == pattern_acceptance_ratios[k]
        IN  Len(trace) > 0 =>
               SameRatio(e.acceptance_ratio,
                         [num |-> Len(trace) - Len(ResidualOf(e.pattern)),
                          den |-> Len(trace)])

\* C14, amended: the recorded ratio is 1 - orphans / original, where original
\* counts the positions of the original trace that hold a value of the
\* pattern and orphans the positions of the residual that do (a position
\* counts once for each slot of the pattern that names its value); it is 0
\* when original is 0.
C14_RatioOverPatternValues ==
    \A k \in 1..Len(pattern_acceptance_ratios) :
        LET e == pattern_acceptance_ratios[k]
            original == Cardinality(SlotPositions(trace, e.pattern))
            orphans == Cardinality(SlotPositions(ResidualOf(e.pattern), e.pattern))
        IN  /\ e.acceptance_ratio.den > 0
            /\ IF original = 0 THEN e.acceptance_ratio.num = 0
               ELSE SameRatio(e.acceptance_ratio,
                              [num |-> original - orphans, den |-> original])

\* a pattern was found, left orphans, and the trace holds other values too
C14_Witness ==
    \E k \in 1..Len(pattern_acceptance_ratios) :
        LET e == pattern_acceptance_ratios[k]
        IN  /\ 0 < e.acceptance_ratio.num
            /\ e.acceptance_ratio.num < e.acceptance_ratio.den
            /\ ~(Range(trace) \subseteq Range(e.pattern))

\* a value of the pattern does not occur in the trace
HasAbsentValue(pat) == ~(Range(pat) \subseteq Range(trace))

\* C15: for every trace, the empty one included, find_acceptance_ratios does
\* not fail, and a pattern none of whose values occurs in the trace is
\* recorded with the ratio 0; so is a pattern of which only some values are
\* absent.
C15_AbsentValuesScoreZero ==
    /\ \A k \in 1..Len(pattern_acceptance_ratios) :
          LET e == pattern_acceptance_ratios[k]
          IN  /\ e.acceptance_ratio.den # 0
              /\ HasAbsentValue(e.pattern) => e.acceptance_ratio.num = 0
    /\ pc = "scored" =>
          \A p \in 1..Len(patterns) :
             \E k \in 1..Len(pattern_acceptance_ratios) :
                pattern_acceptance_ratios[k].pattern = patterns[p]

\* the scorer has returned with a pattern none of whose values is in the
\* trace and a pattern of which one value is and the other is not
C15_Witness ==
    /\ pc = "scored"
    /\ \E p \in 1..Len(patterns) : Range(patterns[p]) \cap Range(trace) = {}
    /\ \E p \in 1..Len(patterns) :
          /\ HasAbsentValue(patterns[p])
          /\ Range(patterns[p]) \cap Range(trace) # {}

-----------------------------------------------------------------------------
(* Properties of extract_groups_from_msg_file (SpecGroups) *)

\* the lines that are neither empty nor comments
DefinitionLines == {lines[k] : k \in {n \in 1..Len(lines) : lines[n].kind = "def"}}

\* C16: every index defined by a non-empty, non-comment line is in the index
\* tuple of exactly one returned group.
C16_EveryIndexInOneGroup ==
    groups.called =>
        \A line \in DefinitionLines :
            Cardinality({k \in 1..Len(groups.returned) :
                            line.index \in Range(groups.returned[k].indices)}) = 1

\* C17: there is at most one group per unordered endpoint pair, it holds the
\* indices of the lines of both directions between the two endpoints, and its
\* index tuple is strictly ascending (sorted, no index twice).
C17_OneSortedGroupPerPair ==
    groups.called =>
        /\ \A k1, k2 \in 1..Len(groups.returned) :
              {groups.returned[k1].src, groups.returned[k1].dest}
                = {groups.returned[k2].src, groups.returned[k2].dest} => k1 = k2
        /\ \A line \in DefinitionLines :
              \E k \in 1..Len(groups.returned) :
                 /\ {groups.returned[k].src, groups.returned[k].dest}
                       = {line.src, line.dest}
                 /\ line.index \in Range(groups.returned[k].indices)
        /\ \A k \in 1..Len(groups.returned) :
              \A p, q \in 1..Len(groups.returned[k].indices) :
                 p < q => groups.returned[k].indices[p] < groups.returned[k].indices[q]

-----------------------------------------------------------------------------
(* Properties of explore_node on deeper searches (SpecDeep) *)

\* the call of explore_node on the node reached by the pairs `path`
CallOf(path) == calls[CHOOSE k \in 1..Len(calls) : calls[k].used_pairs = path]

Called(path) == \E k \in 1..Len(calls) : calls[k].used_pairs = path

\* the pairs of a call but the last: the path of the parent node
ParentPath(c) == SubSeq(c.used_pairs, 1, Len(c.used_pairs) - 1)

\* the pair can be applied at a node entered as `entered`: both endpoints
\* unconsumed at the entry and a strictly shorter trace after the removal
Expandable(pair, entered) ==
    /\ pair[1] \notin Range(entered.used_nodes)
    /\ pair[2] \notin Range(entered.used_nodes)
    /\ Shrinks(pair, entered.remaining_trace)

\* C18: at every node, at any depth, when the pair loop of the value the node
\* committed to is over, every candidate pair that starts at this value, had
\* both endpoints unconsumed when the node was entered and strictly shrinks
\* the node's remaining trace has been expanded as a child.
C18_AllSiblingsExpanded ==
    pc = "explore" =>
        \A d \in 1..Len(stack) :
            (stack[d].at_pair > Len(pairOrder) /\ stack[d].flag = 1) =>
                \A pair \in causal_pairs :
                    ( /\ pair[1] = stack[d].remaining_trace[stack[d].index]
                      /\ Expandable(pair, CallOf(stack[d].used_pairs)) )
                        => Called(Append(stack[d].used_pairs, pair))

\* C19: the children of one node all apply pairs with the same first element,
\* and this element is the leftmost value of the node's remaining trace that
\* is unconsumed and starts a pair the node can apply: the values before it
\* were tried in vain, and no value after it is tried.
C19_ChildrenShareFirstValue ==
    \A k \in 1..Len(calls) :
        calls[k].used_pairs # <<>> =>
            LET parent == CallOf(ParentPath(calls[k]))
                value == Last(calls[k].used_pairs)[1]
                first == CHOOSE i \in 1..Len(parent.remaining_trace) :
                            /\ parent.remaining_trace[i] = value
                            /\ \A j \in 1..(i - 1) : parent.remaining_trace[j] # value
            IN  /\ \A n \in 1..Len(calls) :
                      ( /\ calls[n].used_pairs # <<>>
                        /\ ParentPath(calls[n]) = ParentPath(calls[k]) )
                          => Last(calls[n].used_pairs)[1] = value
                /\ value \in Range(parent.remaining_trace)
                /\ value \notin Range(parent.used_nodes)
                /\ \A j \in 1..(first - 1) : \A pair \in causal_pairs :
                      pair[1] = parent.remaining_trace[j] => ~Expandable(pair, parent)

\* a node has two children, and values of its trace before the one it
\* committed to were passed over
C19_Witness ==
    \E k, n \in 1..Len(calls) :
        /\ k # n
        /\ calls[k].used_pairs # <<>> /\ calls[n].used_pairs # <<>>
        /\ ParentPath(calls[k]) = ParentPath(calls[n])
        /\ CallOf(ParentPath(calls[k])).remaining_trace[1]
              # Last(calls[k].used_pairs)[1]

\* the remaining trace after the first k pairs of a route were applied to
\* the original trace
RECURSIVE TraceAfter(_, _)
TraceAfter(route, k) ==
    IF k = 0 THEN trace
    ELSE remove_binary_pattern(route[k], TraceAfter(route, k - 1)).new_trace

\* C20: in every recorded route each applied pair strictly shrank the
\* remaining trace it was applied to, and no pair has an endpoint equal to
\* an endpoint of an earlier pair of the route.
C20_RoutePairsShrinkAndDisjoint ==
    \A r \in 1..Len(route_acceptance_ratios) :
        LET route == route_acceptance_ratios[r].used_pairs
        IN  \A k \in 1..Len(route) :
                /\ Len(TraceAfter(route, k)) < Len(TraceAfter(route, k - 1))
                /\ \A j \in 1..(k - 1) : Range(route[j]) \cap Range(route[k]) = {}

\* a recorded route of two pairs that leaves a part of the trace
C20_Witness ==
    \E r \in 1..Len(route_acceptance_ratios) :
        /\ Len(route_acceptance_ratios[r].used_pairs) = 2
        /\ ~RatioIsOne(route_acceptance_ratios[r].acceptance_ratio)

-----------------------------------------------------------------------------
(* Properties of the two removers compared (SpecMatcher) *)

\* the k-th pair of positions remove_binary_pattern took: the position of
\* pair[0] and the position of pair[1]
TakenFirst(k) == binary.toremove[2 * k - 1]

TakenSecond(k) == binary.toremove[2 * k]

\* the positions of pair[0] before the k-th pair[1] taken that no earlier
\* pair took
Unmatched(k) ==
    {p \in 1..(TakenSecond(k) - 1) :
        /\ trace[p] = pattern[1]
        /\ \A j \in 1..(k - 1) : TakenFirst(j) # p}

\* C21 as stated: for a pair (a, b) with a # b, the a removed together with
\* a b is the most recently seen unmatched a (last-in first-out).
C21_PairsMostRecentFirstHalf ==
    (binary.called /\ pattern[1] # pattern[2]) =>
        \A k \in 1..(Len(binary.toremove) \div 2) :
            /\ TakenFirst(k) \in Unmatched(k)
            /\ \A p \in Unmatched(k) : p <= TakenFirst(k)

\* C21, amended: for a pair (a, b) with a # b, the a removed together with
\* a b is the earliest unmatched a seen before that b (first-in first-out).
C21_PairsEarliestFirstHalf ==
    (binary.called /\ pattern[1] # pattern[2]) =>
        \A k \in 1..(Len(binary.toremove) \div 2) :
            /\ TakenFirst(k) \in Unmatched(k)
            /\ trace[TakenSecond(k)] = pattern[2]
            /\ \A p \in Unmatched(k) : TakenFirst(k) <= p

\* a b was reached while two occurrences of a were unmatched
C21_Witness ==
    /\ binary.called /\ pattern[1] # pattern[2]
    /\ \E k \in 1..(Len(binary.toremove) \div 2) : Cardinality(Unmatched(k)) >= 2

\* C24: for a pair (a, b) with a # b the two removers return the same
\* residual sequence and remove the same set of positions.
C24_RemoversAgree ==
    (removal.called /\ binary.called /\ pattern[1] # pattern[2]) =>
        /\ binary.new_trace = removal.new_trace
        /\ Range(binary.toremove) = removal.to_remove

\* both removers ran on a trace in which two occurrences of a come before a
\* b: the first a is removed with the b, the second stays
C24_Witness ==
    /\ removal.called /\ binary.called
    /\ Len(pattern) = 2 /\ pattern[1] # pattern[2]
    /\ \E p, q, r \in 1..Len(trace) :
          /\ p < q /\ q < r
          /\ trace[p] = pattern[1] /\ trace[q] = pattern[1]
          /\ trace[r] = pattern[2]
          /\ p \in removal.to_remove /\ q \notin removal.to_remove
          /\ r \in removal.to_remove

\* the occurrences of the slots j.. of the pattern at positions of avail
\* after the position last, as ascending sequences of positions
RECURSIVE OccurrencesFrom(_, _, _, _, _)
OccurrencesFrom(t, pat, j, last, avail) ==
    IF j > Len(pat) THEN {<<>>}
    ELSE UNION {{<<p>> \o rest :
                    rest \in OccurrencesFrom(t, pat, j + 1, p, avail)} :
                p \in {q \in avail : q > last /\ t[q] = pat[j]}}

\* the largest number of pairwise position-disjoint occurrences of the
\* pattern at positions of avail whose first positions are >= from
RECURSIVE MaxDisjoint(_, _, _, _)
MaxDisjoint(t, pat, from, avail) ==
    IF from > Len(t) THEN 0
    ELSE LET skip == MaxDisjoint(t, pat, from + 1, avail)
             starts == IF from \in avail /\ t[from] = pat[1]
                       THEN OccurrencesFrom(t, pat, 2, from, avail)
                       ELSE {}
             with == {1 + MaxDisjoint(t, pat, from + 1,
                                      avail \ ({from} \cup Range(occ))) :
                         occ \in starts}
         IN  CHOOSE m \in with \cup {skip} :
                 \A n \in with \cup {skip} : n <= m

PairwiseDistinct(pat) ==
    \A i, j \in 1..Len(pat) : i # j => pat[i] # pat[j]

\* C25: for a pattern of length >= 2 with pairwise distinct values the
\* number of occurrences remove_pattern_from_trace removes is the largest
\* number of pairwise position-disjoint, order-preserving occurrences of the
\* pattern in the trace.
C25_GreedyRemovesMaximum ==
    (removal.called /\ Len(pattern) >= 2 /\ PairwiseDistinct(pattern)) =>
        Len(removal.occurrences)
            = MaxDisjoint(trace, pattern, 1, 1..Len(trace))

\* a pattern removed twice from a trace that holds a value of the pattern
\* once more
C25_Witness ==
    /\ removal.called /\ Len(pattern) >= 2 /\ PairwiseDistinct(pattern)
    /\ Len(removal.occurrences) >= 2
    /\ \E p \in 1..Len(trace) :
          trace[p] \in Range(pattern) /\ p \notin removal.to_remove

-----------------------------------------------------------------------------
(* The pass loop of find_acceptance_ratios (SpecScorer) *)

\* C23: the pass loop ends after at most len(patterns) passes, and the
\* returned list holds exactly one (pattern, ratio) entry for each input
\* pattern.
C23_OnePassAndEntryPerPattern ==
    /\ passes <= Len(patterns)
    /\ pc = "scored" =>
          /\ Len(pattern_acceptance_ratios) = Len(patterns)
          /\ \A p \in 1..Len(patterns) :
                \E k \in 1..Len(pattern_acceptance_ratios) :
                   pattern_acceptance_ratios[k].pattern = patterns[p]

-----------------------------------------------------------------------------
(* Termination of explore_node (SpecDeepFair) *)

\* the calls that made no child: the ends of the root-to-leaf paths
IsPathEnd(c) ==
    \A n \in 1..Len(calls) :
        calls[n].used_pairs = <<>> \/ ParentPath(calls[n]) # c.used_pairs

\* every step of a path shortens the remaining trace by 2 positions or more,
\* no path applies more than floor(len(trace) / 2) pairs, and when the search
\* has returned every path has ended in exactly one recorded route
PathsShortenAndEndInOneRoute ==
    /\ \A k \in 1..Len(calls) :
          /\ 2 * Len(calls[k].used_pairs) <= Len(trace)
          /\ calls[k].used_pairs # <<>> =>
                Len(calls[k].remaining_trace) + 2
                    <= Len(CallOf(ParentPath(calls[k])).remaining_trace)
    /\ pc = "done" =>
          /\ stack = <<>>
          /\ \A k \in 1..Len(calls) :
                Cardinality({r \in 1..Len(route_acceptance_ratios) :
                    route_acceptance_ratios[r].used_pairs = calls[k].used_pairs})
                  = IF IsPathEnd(calls[k]) THEN 1 ELSE 0

\* C22: for a non-empty trace the search terminates: every path shortens
\* the remaining trace by at least 2 positions per step, applies at most
\* floor(len(trace) / 2) pairs and ends in exactly one recorded route, and
\* explore_node(root) returns.
C22_SearchTerminates ==
    /\ [](trace # <<>> => PathsShortenAndEndInOneRoute)
    /\ (pc = "explore" /\ trace # <<>>) ~> (pc = "done")

\* the search has returned with several routes, one of them of two pairs
C22_Witness ==
    /\ pc = "done"
    /\ Len(route_acceptance_ratios) >= 2
    /\ \E r \in 1..Len(route_acceptance_ratios) :
          Len(route_acceptance_ratios[r].used_pairs) = 2

=============================================================================
